---------------------------- MODULE Spec2Model ----------------------------
(***************************************************************************)
(* Model of the Kafka exporter of cprobe                                   *)
(* (src/plugins/kafka/exporter/exporter.go).                               *)
(*                                                                         *)
(* Two layers are modelled, each with its own specification:               *)
(*                                                                         *)
(*   CoordSpec  Exporter.Collect and Exporter.collectChans: the coalescing *)
(*              of concurrent Collect calls, the collector goroutine that  *)
(*              fills `container`, and the hand-off of the buffer to the   *)
(*              registered channels.  The pipeline (Exporter.collect) is   *)
(*              seen here only through the samples it sends.               *)
(*                                                                         *)
(*   Spec       Exporter.collect itself: the topic worker pool, the        *)
(*              per-run offset map, and the per-broker consumer-group      *)
(*              tasks, for one or several concurrently executing runs.     *)
(***************************************************************************)
EXTENDS Integers, Sequences, FiniteSets, Bags, TLC

(***************************************************************************)
(* Bounds of the model.                                                    *)
(***************************************************************************)
\* Collect calls issued in one behaviour of CoordSpec.
MaxCalls == 3
\* Samples the pipeline sends after the topic list was obtained (CoordSpec).
MaxSamples == 1
\* Brokers returned by client.Brokers().
NumBrokers == 2
\* Topics returned by client.Topics(): any prefix of 1..MaxTopics.
MaxTopics == 4
\* Largest configured topicWorkers (the smallest explored is -1).
MaxWorkers == 2
\* Partitions of every topic: 0..NumPartitions-1.
NumPartitions == 2
\* Newest offsets a GetOffset call can return: 1..MaxOffset.
MaxOffset == 2
\* Consumer groups of the cluster: 1..NumGroups.
NumGroups == 3
\* Collect calls that run the pipeline in one behaviour of Spec.
MaxRuns == 2

NoSample == [kind |-> "none", run |-> 0, seq |-> 0]

Calls == 1..MaxCalls

(***************************************************************************)
(* State of the coordinator layer.                                         *)
(***************************************************************************)
VARIABLES
  allowConcurrent, \* Exporter.allowConcurrent
  sgMutex,         \* Exporter.sgMutex: 0 when free, else the run holding it
  sgChans,         \* Exporter.sgChans: the registered channels (by call)
  sgWaitCh,        \* Exporter.sgWaitCh: 0 for nil, else the channel's id
  closedCh,        \* the wait channels that were closed
  callPc,          \* position of each Collect call
  waiter,          \* the local `waiter` of each Collect call
  out,             \* what each call's channel `ch` has received, in order
  runPc,           \* position of the run (collectChans / collect) of a call
  sent,            \* the samples collect has sent in a run, in order
  pending,         \* the sample the collector goroutine received and has
                   \* not yet appended to `container`
  container,       \* collectChans' `container`
  hi,              \* hand-off: index into sgChans (outer range)
  hj,              \* hand-off: index into the ranged slice (inner range)
  snap,            \* hand-off: the slice the inner range statement ranges over
  abandoned        \* the calls whose ch is no longer received from

coordVars == <<allowConcurrent, sgMutex, sgChans, sgWaitCh, closedCh, callPc,
               waiter, out, runPc, sent, pending, container, hi, hj, snap,
               abandoned>>

(***************************************************************************)
(* State of the pipeline layer (Exporter.collect).  Everything declared    *)
(* inside collect exists once per run.                                     *)
(***************************************************************************)
VARIABLES
  topics,          \* what client.Topics() returns
  topicWorkers,    \* Exporter.topicWorkers
  offsetShowAll,   \* Exporter.offsetShowAll
  brokers,         \* what client.Brokers() returns (a set of broker ids)
  groupFilter,     \* the groups that match e.groupFilter
  groupOffsets,    \* the cluster's block [offset, err] for every
                   \* <<group, topic, partition>>
  partitionLog,    \* the cluster's [newest, oldest] for every
                   \* <<topic, partition>>: the offsets GetOffset can
                   \* return for OffsetNewest, and the one for OffsetOldest
  fetchFaults,     \* the per-partition fetches that can fail
  numRuns,         \* how many Collect calls are made in this behaviour
  mainPc,          \* position of collect's own goroutine, per run
  di,              \* index of the range loop of lines 537-542, per run
  chanClosed,      \* whether topicChannel was closed, per run
  wg,              \* the sync.WaitGroup of line 364, per run
  worker,          \* the loopTopics goroutines, per run
  task,            \* the getConsumerGroupMetrics goroutines, per run
  offset,          \* the map of line 374, per table (see TableOf)
  emitted,         \* the samples sent on ch, per run (a bag)
  handed,          \* history: the <<topic, worker>> receptions of line 510
  finished,        \* history: the topics whose getTopicMetrics returned
  fetched,         \* history: <<topic, partition, offset>> of each successful
                   \* GetOffset(OffsetNewest) of the run
  lookups,         \* history: the reads of line 631 made by the run
  results,         \* history: <<topic, partition, fetch results>> of every
                   \* iteration of the loop of line 417
  groupLog         \* history: [broker, group, outcome, req] of every
                   \* iteration of the loop of line 572, and of every
                   \* successful DescribeGroups (group 0)

\* What the exporter is configured with and what the cluster holds.
configVars == <<topics, topicWorkers, offsetShowAll, brokers, groupFilter,
                groupOffsets, partitionLog, fetchFaults, numRuns>>

runVars == <<topics, topicWorkers, offsetShowAll, brokers, groupFilter,
             groupOffsets, partitionLog, fetchFaults,
             numRuns, mainPc, di, chanClosed, wg, worker, task, offset, emitted,
             handed, finished, fetched, lookups, results, groupLog>>


(***************************************************************************)
(* Samples as the coordinator sees them: the k-th sample sent by run r.    *)
(* Line 365 sends the broker count, lines 368-372 one broker_info sample   *)
(* per broker, everything after line 388 is a pipeline metric.             *)
(***************************************************************************)
Sample(k, r, n) == [kind |-> k, run |-> r, seq |-> n]

\* Number of samples sent before client.Topics() is called (lines 365-372).
BrokerSamples == 1 + NumBrokers

\* The channels of a slice, as a set.
Range(s) == {s[i] : i \in 1..Len(s)}

(***************************************************************************)
(* Exporter.Collect                                                        *)
(***************************************************************************)
\* Line 315: Collect is invoked.  Calls are numbered in the order in which
\* they are invoked, so call c is invoked once every call before it was.
Invoked(c) ==
  /\ callPc[c] = "idle"
  /\ \A d \in Calls : d < c => callPc[d] # "idle"

\* Line 324: the call that finds itself alone in sgChans starts the run.
StartsRunAlways(chans) == Len(chans) >= 1

StartsRunNever(chans) == FALSE

StartsRun(chans) == Len(chans) = 1

\* Lines 316-318: with allowConcurrent the call runs collect(ch) itself.
CollectCoalesced(c) ==
  /\ allowConcurrent
  /\ Invoked(c)
  /\ sgMutex = 0
  /\ sgChans' = Append(sgChans, c)
  /\ sgWaitCh' = IF StartsRun(Append(sgChans, c)) THEN c ELSE sgWaitCh
  /\ waiter' = [waiter EXCEPT ![c] =
                  IF StartsRun(Append(sgChans, c)) THEN c ELSE sgWaitCh]
  /\ runPc' = IF StartsRun(Append(sgChans, c))
                THEN [runPc EXCEPT ![c] = "brokers"] ELSE runPc
  /\ callPc' = [callPc EXCEPT ![c] = "wait"]
  /\ UNCHANGED <<abandoned, allowConcurrent, sgMutex, closedCh, out, sent,
                 pending, container, hi, hj, snap>>
  /\ UNCHANGED runVars

CollectDirect(c) ==
  /\ allowConcurrent
  /\ Invoked(c)
  /\ callPc' = [callPc EXCEPT ![c] = "collect"]
  /\ runPc' = [runPc EXCEPT ![c] = "brokers"]
  /\ UNCHANGED <<abandoned, allowConcurrent, sgMutex, sgChans, sgWaitCh, closedCh, waiter,
                 out, sent, pending, container, hi, hj, snap>>
  /\ UNCHANGED runVars

\* Lines 321-332: under sgMutex, append ch, start a run when ch is the only
\* entry, copy sgWaitCh into the local `waiter`, unlock.
Register(c) ==
  /\ ~allowConcurrent
  /\ Invoked(c)
  /\ sgMutex = 0
  /\ LET chans == Append(sgChans, c)
         waitCh == IF StartsRun(chans) THEN c ELSE sgWaitCh
     IN /\ sgChans' = chans
        /\ sgWaitCh' = waitCh
        /\ runPc' = IF StartsRun(chans)
                      THEN [runPc EXCEPT ![c] = "brokers"]
                      ELSE runPc
        /\ waiter' = [waiter EXCEPT ![c] = waitCh]
  /\ callPc' = [callPc EXCEPT ![c] = "wait"]
  /\ UNCHANGED <<abandoned, allowConcurrent, sgMutex, closedCh, out, sent, pending,
                 container, hi, hj, snap>>
  /\ UNCHANGED runVars

\* Line 334: <-waiter returns once the channel is closed (a nil channel,
\* id 0, never is).
WaitReturn(c) ==
  /\ callPc[c] = "wait"
  /\ waiter[c] \in closedCh
  /\ callPc' = [callPc EXCEPT ![c] = "returned"]
  /\ UNCHANGED <<abandoned, allowConcurrent, sgMutex, sgChans, sgWaitCh, closedCh, waiter,
                 out, runPc, sent, pending, container, hi, hj, snap>>
  /\ UNCHANGED runVars

(***************************************************************************)
(* Exporter.collect, as seen through the channel it sends on.  With        *)
(* coalescing the channel is `original` (unbuffered): a send completes     *)
(* when the collector goroutine of lines 341-345 receives, and that        *)
(* goroutine appends to `container` in a step of its own.  With            *)
(* allowConcurrent the channel is the caller's ch.                         *)
(***************************************************************************)
Send(r, s) ==
  /\ sent' = [sent EXCEPT ![r] = Append(@, s)]
  /\ IF allowConcurrent
       THEN /\ out' = [out EXCEPT ![r] = Append(@, s)]
            /\ UNCHANGED pending
       ELSE /\ pending[r] = NoSample
            /\ pending' = [pending EXCEPT ![r] = s]
            /\ UNCHANGED out

\* collect returns: line 318 returns from Collect, line 347 closes original.
Return(r) ==
  IF allowConcurrent
    THEN /\ runPc' = [runPc EXCEPT ![r] = "done"]
         /\ callPc' = [callPc EXCEPT ![r] = "returned"]
    ELSE /\ runPc' = [runPc EXCEPT ![r] = "returned"]
         /\ UNCHANGED callPc

\* Lines 365-367.
CollectBrokers(r) ==
  /\ runPc[r] = "brokers"
  /\ Send(r, Sample("brokers", r, 1))
  /\ runPc' = [runPc EXCEPT ![r] = "info"]
  /\ UNCHANGED <<abandoned, allowConcurrent, sgMutex, sgChans, sgWaitCh, closedCh, callPc,
                 waiter, container, hi, hj, snap>>
  /\ UNCHANGED runVars

\* Lines 368-372.
CollectBrokerInfo(r) ==
  /\ runPc[r] = "info"
  /\ Send(r, Sample("broker_info", r, Len(sent[r]) + 1))
  /\ runPc' = [runPc EXCEPT ![r] =
                 IF Len(sent[r]) + 1 = BrokerSamples THEN "topics" ELSE "info"]
  /\ UNCHANGED <<abandoned, allowConcurrent, sgMutex, sgChans, sgWaitCh, closedCh, callPc,
                 waiter, container, hi, hj, snap>>
  /\ UNCHANGED runVars

\* Lines 388-393: the topic list is obtained, or collect returns.
CollectTopics(r) ==
  /\ runPc[r] = "topics"
  /\ \E ok \in BOOLEAN :
       IF ok
         THEN /\ runPc' = [runPc EXCEPT ![r] = "pipeline"]
              /\ UNCHANGED callPc
         ELSE Return(r)
  /\ UNCHANGED <<abandoned, allowConcurrent, sgMutex, sgChans, sgWaitCh, closedCh, waiter,
                 out, sent, pending, container, hi, hj, snap>>
  /\ UNCHANGED runVars

\* Lines 395-668: a topic, partition or consumer-group metric is sent.
CollectMetric(r) ==
  /\ runPc[r] = "pipeline"
  /\ Len(sent[r]) < BrokerSamples + MaxSamples
  /\ Send(r, Sample("metric", r, Len(sent[r]) + 1))
  /\ UNCHANGED <<abandoned, allowConcurrent, sgMutex, sgChans, sgWaitCh, closedCh, callPc,
                 waiter, runPc, container, hi, hj, snap>>
  /\ UNCHANGED runVars

\* Line 669.
CollectReturn(r) ==
  /\ runPc[r] = "pipeline"
  /\ Return(r)
  /\ UNCHANGED <<abandoned, allowConcurrent, sgMutex, sgChans, sgWaitCh, closedCh, waiter,
                 out, sent, pending, container, hi, hj, snap>>
  /\ UNCHANGED runVars

(***************************************************************************)
(* Exporter.collectChans                                                   *)
(***************************************************************************)
\* Lines 341-345: container = append(container, metric).  Nothing orders
\* this append before the hand-off's reads of `container`.
CollectorAppend(r) ==
  /\ pending[r] # NoSample
  /\ container' = [container EXCEPT ![r] = Append(@, pending[r])]
  /\ pending' = [pending EXCEPT ![r] = NoSample]
  /\ UNCHANGED <<abandoned, allowConcurrent, sgMutex, sgChans, sgWaitCh, closedCh, callPc,
                 waiter, out, runPc, sent, hi, hj, snap>>
  /\ UNCHANGED runVars

\* Lines 349-351: take sgMutex, start ranging over sgChans, and evaluate
\* `container` for the inner range statement of the first channel.
HandoffLock(r) ==
  /\ runPc[r] = "returned"
  /\ sgMutex = 0
  /\ sgMutex' = r
  /\ runPc' = [runPc EXCEPT ![r] = "handoff"]
  /\ hi' = 1
  /\ hj' = 1
  /\ snap' = container[r]
  /\ UNCHANGED <<abandoned, allowConcurrent, sgChans, sgWaitCh, closedCh, callPc, waiter,
                 out, sent, pending, container>>
  /\ UNCHANGED runVars

\* Line 352: ch <- metric.  The send completes when the caller receives.
HandoffSend(r) ==
  /\ runPc[r] = "handoff"
  /\ hi <= Len(sgChans)
  /\ hj <= Len(snap)
  /\ sgChans[hi] \notin abandoned
  /\ out' = [out EXCEPT ![sgChans[hi]] = Append(@, snap[hj])]
  /\ hj' = hj + 1
  /\ UNCHANGED <<abandoned, allowConcurrent, sgMutex, sgChans, sgWaitCh, closedCh, callPc,
                 waiter, runPc, sent, pending, container, hi, snap>>
  /\ UNCHANGED runVars

\* Lines 350-351: the inner range is exhausted; on to the next channel, for
\* which the inner range statement evaluates `container` again.
HandoffNext(r) ==
  /\ runPc[r] = "handoff"
  /\ hi <= Len(sgChans)
  /\ hj > Len(snap)
  /\ hi' = hi + 1
  /\ hj' = 1
  /\ snap' = IF hi + 1 <= Len(sgChans) THEN container[r] ELSE <<>>
  /\ UNCHANGED <<abandoned, allowConcurrent, sgMutex, sgChans, sgWaitCh, closedCh, callPc,
                 waiter, out, runPc, sent, pending, container>>
  /\ UNCHANGED runVars

\* Line 356: e.sgChans = e.sgChans[:0].
KeepChans(chans) == chans

ResetChans(chans) == <<>>

\* Lines 356-360: reset the slice, close(quit), unlock.  `quit` is the
\* sgWaitCh made by the call that started the run.
HandoffFinish(r) ==
  /\ runPc[r] = "handoff"
  /\ hi > Len(sgChans)
  /\ sgChans' = ResetChans(sgChans)
  /\ closedCh' = closedCh \cup {r}
  /\ sgMutex' = 0
  /\ runPc' = [runPc EXCEPT ![r] = "done"]
  /\ hi' = 0
  /\ hj' = 0
  /\ snap' = <<>>
  /\ UNCHANGED <<abandoned, allowConcurrent, sgWaitCh, callPc, waiter, out, sent, pending,
                 container>>
  /\ UNCHANGED runVars

CoordInit ==
  /\ allowConcurrent \in BOOLEAN
  /\ abandoned = {}
  /\ sgMutex = 0
  /\ sgChans = <<>>
  /\ sgWaitCh = 0
  /\ closedCh = {}
  /\ callPc = [c \in Calls |-> "idle"]
  /\ waiter = [c \in Calls |-> 0]
  /\ out = [c \in Calls |-> <<>>]
  /\ runPc = [c \in Calls |-> "none"]
  /\ sent = [c \in Calls |-> <<>>]
  /\ pending = [c \in Calls |-> NoSample]
  /\ container = [c \in Calls |-> <<>>]
  /\ hi = 0
  /\ hj = 0
  /\ snap = <<>>

CoordNext ==
  \E c \in Calls :
    \/ CollectDirect(c)
    \/ Register(c)
    \/ WaitReturn(c)
    \/ CollectBrokers(c)
    \/ CollectBrokerInfo(c)
    \/ CollectTopics(c)
    \/ CollectMetric(c)
    \/ CollectReturn(c)
    \/ CollectorAppend(c)
    \/ HandoffLock(c)
    \/ HandoffSend(c)
    \/ HandoffNext(c)
    \/ HandoffFinish(c)


(***************************************************************************)
(* The caller of Collect.  Collect sends on the caller's ch (line 352); a  *)
(* caller that has given up no longer receives from it.                    *)
(***************************************************************************)
\* The caller of the registered call c stops receiving from ch.  One caller
\* does so in a behaviour.
Abandon(c) ==
  /\ callPc[c] = "wait"
  /\ abandoned = {}
  /\ abandoned' = {c}
  /\ UNCHANGED <<allowConcurrent, sgMutex, sgChans, sgWaitCh, closedCh, callPc,
                 waiter, out, runPc, sent, pending, container, hi, hj, snap>>
  /\ UNCHANGED runVars

AbandonNext == CoordNext \/ \E c \in Calls : Abandon(c)

\* Every goroutine that can take its next step does take it; whether
\* Collect is called, and whether a caller gives up, is up to the callers.
CoordFairness ==
  \A c \in Calls :
    /\ WF_<<coordVars, runVars>>(WaitReturn(c))
    /\ WF_<<coordVars, runVars>>(CollectBrokers(c))
    /\ WF_<<coordVars, runVars>>(CollectBrokerInfo(c))
    /\ WF_<<coordVars, runVars>>(CollectTopics(c))
    /\ WF_<<coordVars, runVars>>(CollectReturn(c))
    /\ WF_<<coordVars, runVars>>(CollectorAppend(c))
    /\ WF_<<coordVars, runVars>>(HandoffLock(c))
    /\ WF_<<coordVars, runVars>>(HandoffSend(c))
    /\ WF_<<coordVars, runVars>>(HandoffNext(c))
    /\ WF_<<coordVars, runVars>>(HandoffFinish(c))
(***************************************************************************)
(* The cluster as the pipeline sees it.  Topics, partitions, brokers and   *)
(* groups are numbered; the regular expressions of the exporter are the    *)
(* predicates below.                                                       *)
(***************************************************************************)
Runs == 1..MaxRuns

Groups == 1..NumGroups

\* e.topicFilter.MatchString(topic) and e.topicExclude.MatchString(topic):
\* of every five topics, the first and the fourth are accepted, the third
\* matches the filter and the exclude pattern, the others match no filter.
TopicFilterMatch(t) == t % 5 \in {1, 3, 4}

TopicExcludeMatch(t) == t % 5 = 3

\* Lines 401 and 538: the topic passes the allow and the deny pattern.
Accepted(t) == TopicFilterMatch(t) /\ ~TopicExcludeMatch(t)

\* e.groupFilter.MatchString(groupId) and e.groupExclude.MatchString(groupId).
GroupFilterMatch(g) == g \in groupFilter

GroupExcludeMatch(g) == g % 3 = 0

\* client.Partitions(topic), when it succeeds.
PartitionsOf(t) == 0..(NumPartitions - 1)

\* broker.ListGroups: the groups a broker coordinates.
ListedGroups(b) == {g \in Groups : brokers # {} /\ ((g - 1) % Cardinality(brokers)) + 1 = b}

\* Lines 560-567: the groups that are described.
DescribedGroups(b) ==
  {g \in ListedGroups(b) : GroupFilterMatch(g) /\ ~GroupExcludeMatch(g)}

\* group.Members and member.GetMemberAssignment(): group g has one or two
\* members, which share the partitions of the topics the group consumes.
MemberCount(g) == 1 + (g % 2)

ConsumedTopics(g) == {t \in {topics[i] : i \in 1..Len(topics)} : (t + g) % 2 = 0}

MemberAssignment(g, m) ==
  UNION {{<<t, p>> : p \in {q \in PartitionsOf(t) : q % MemberCount(g) = m - 1}} :
           t \in ConsumedTopics(g)}

\* The committed offset of a group and a partition in the fixed cluster
\* of Spec; -1 when there is none.
Committed(g, t, p) ==
  IF t \in ConsumedTopics(g) /\ p % 2 = 0 THEN 1 ELSE -1

OffsetKeys == Groups \X (1..MaxTopics) \X (0..(NumPartitions - 1))

FixedOffsets ==
  [k \in OffsetKeys |-> [offset |-> Committed(k[1], k[2], k[3]), err |-> FALSE]]

\* broker.FetchOffset, when it succeeds: one block per requested partition.
FetchOffsetResponse(g, req) ==
  [k \in req |-> groupOffsets[<<g, k[1], k[2]>>]]

(***************************************************************************)
(* Metric samples: prometheus.MustNewConstMetric(desc, GaugeValue, value,  *)
(* labels...).  A label the metric does not have is 0 (group, topic) or -1 *)
(* (partition).                                                            *)
(***************************************************************************)
Metric(name, g, t, p, v) ==
  [name |-> name, group |-> g, topic |-> t, partition |-> p, value |-> v]

\* Lines 365-372.
BrokerMetrics(bs) ==
  {Metric("brokers", 0, 0, -1, Cardinality(bs))}
    \cup {Metric("broker_info", 0, 0, -1, b) : b \in bs}

(***************************************************************************)
(* The offset map of line 374: topic -> partition -> newest offset.        *)
(***************************************************************************)
EmptyMap == [x \in {} |-> 0]

\* Line 415: offset[topic] = make(map[int32]int64, len(partitions)).
TableReset(table, t) ==
  [x \in DOMAIN table \cup {t} |-> IF x = t THEN EmptyMap ELSE table[x]]

TableSetTopic(table, t, p, v) ==
  [x \in DOMAIN table \cup {t} |->
     IF x = t THEN [y \in PartitionsOf(t) |-> v] ELSE table[x]]

\* Line 432: offset[topic][partition] = currentOffset.  (Line 415 has made
\* the topic's entry before.)
TableSet(table, t, p, v) ==
  LET inner == IF t \in DOMAIN table THEN table[t] ELSE EmptyMap
  IN [x \in DOMAIN table \cup {t} |->
        IF x = t
          THEN [y \in DOMAIN inner \cup {p} |-> IF y = p THEN v ELSE inner[y]]
          ELSE table[x]]

\* Line 631: offset, ok := offset[topic][partition].
HasOffset(table, t, p) == t \in DOMAIN table /\ p \in DOMAIN table[t]

\* Lines 575-579: every (topic, partition) of the map.
TableKeys(table) ==
  UNION {{<<t, p>> : p \in DOMAIN table[t]} : t \in DOMAIN table}

(***************************************************************************)
(* getTopicMetrics, one partition (lines 417-484).  A fetch result is      *)
(* [ok, val]: on an error the code is left with a nil broker, a nil slice  *)
(* or an unused offset.                                                    *)
(***************************************************************************)
Ok(v) == [ok |-> TRUE, val |-> v]

Failed == [ok |-> FALSE, val |-> 0]

LeaderIsReplica(res) ==
  IF /\ res.leader.ok
     /\ res.replicas.ok
     /\ \E i \in 1..Len(res.replicas.val) : res.leader.val = res.replicas.val[i]
    THEN 1 ELSE 0

\* Line 466.
UsesPreferredReplica(res) ==
  IF /\ res.leader.ok
     /\ res.replicas.ok
     /\ Len(res.replicas.val) > 0
     /\ res.leader.val = res.replicas.val[1]
    THEN 1 ELSE 0

UnderReplicatedNonEmpty(res) ==
  IF /\ res.replicas.ok
     /\ res.isr.ok
     /\ Len(res.isr.val) > 0
     /\ Len(res.isr.val) < Len(res.replicas.val)
    THEN 1 ELSE 0

\* Line 476.
UnderReplicated(res) ==
  IF /\ res.replicas.ok
     /\ res.isr.ok
     /\ Len(res.isr.val) < Len(res.replicas.val)
    THEN 1 ELSE 0

PartitionSamplesUntilError(t, p, res) ==
  IF ~res.leader.ok THEN {}
  ELSE {Metric("topic_partition_leader", 0, t, p, res.leader.val)} \cup
  (IF ~res.cur.ok THEN {}
   ELSE {Metric("topic_partition_current_offset", 0, t, p, res.cur.val)} \cup
   (IF ~res.old.ok THEN {}
    ELSE {Metric("topic_partition_oldest_offset", 0, t, p, res.old.val)} \cup
    (IF ~res.replicas.ok THEN {}
     ELSE {Metric("topic_partition_replicas", 0, t, p, Len(res.replicas.val))} \cup
     (IF ~res.isr.ok THEN {}
      ELSE {Metric("topic_partition_in_sync_replica", 0, t, p, Len(res.isr.val)),
            Metric("topic_partition_leader_is_preferred", 0, t, p,
                   UsesPreferredReplica(res)),
            Metric("topic_partition_under_replicated_partition", 0, t, p,
                   UnderReplicated(res))}))))

PartitionSamples(t, p, res) ==
  (IF res.leader.ok
     THEN {Metric("topic_partition_leader", 0, t, p, res.leader.val)} ELSE {})
  \cup (IF res.cur.ok
     THEN {Metric("topic_partition_current_offset", 0, t, p, res.cur.val)} ELSE {})
  \cup (IF res.old.ok
     THEN {Metric("topic_partition_oldest_offset", 0, t, p, res.old.val)} ELSE {})
  \cup (IF res.replicas.ok
     THEN {Metric("topic_partition_replicas", 0, t, p, Len(res.replicas.val))} ELSE {})
  \cup (IF res.isr.ok
     THEN {Metric("topic_partition_in_sync_replica", 0, t, p, Len(res.isr.val))} ELSE {})
  \cup {Metric("topic_partition_leader_is_preferred", 0, t, p, UsesPreferredReplica(res))}
  \cup {Metric("topic_partition_under_replicated_partition", 0, t, p, UnderReplicated(res))}

(***************************************************************************)
(* getConsumerGroupMetrics, one group (lines 573-655).  A response is a    *)
(* function from the requested <<topic, partition>> pairs to blocks        *)
(* [offset, err].                                                          *)
(***************************************************************************)
\* Lines 574-593: the partitions of the offset-fetch request.
MembersRequest(g) == UNION {MemberAssignment(g, m) : m \in 1..MemberCount(g)}

RequestTableKeys(showAll, table, g) == TableKeys(table)

OffsetFetchRequest(showAll, table, g) ==
  IF showAll THEN TableKeys(table) ELSE MembersRequest(g)

RespTopics(resp) == {k[1] : k \in DOMAIN resp}

RespPartitions(resp, t) == {k[2] : k \in {x \in DOMAIN resp : x[1] = t}}

\* Lines 605-612.
TopicRequested(resp, t) == RespPartitions(resp, t) # {}

TopicConsumed(resp, t) ==
  \E p \in RespPartitions(resp, t) : resp[<<t, p>>].offset # -1

\* Lines 620-624: the blocks without an error.
Reported(resp, t) == {p \in RespPartitions(resp, t) : ~resp[<<t, p>>].err}

\* Lines 634-640: the lag of a partition whose newest offset is known.
LagOfDifference(newest, committed) == newest - committed

Lag(newest, committed) ==
  IF committed = -1 THEN -1 ELSE newest - committed

RECURSIVE SumOver(_, _)
\* Sum of the function f over the finite set S.
SumOver(S, f) ==
  IF S = {} THEN 0
  ELSE LET x == CHOOSE y \in S : TRUE
       IN f[x] + SumOver(S \ {x}, f)

\* Lines 617, 626: currentOffsetSum.
CurrentOffsetSumCommitted(resp, t) ==
  LET counted == {p \in Reported(resp, t) : resp[<<t, p>>].offset # -1}
  IN SumOver(counted, [p \in counted |-> resp[<<t, p>>].offset])

CurrentOffsetSum(resp, t) ==
  SumOver(Reported(resp, t), [p \in Reported(resp, t) |-> resp[<<t, p>>].offset])

\* Lines 618, 631-640: lagSum.
LagSum(table, resp, t) ==
  LET counted == {p \in Reported(resp, t) :
                    HasOffset(table, t, p) /\ resp[<<t, p>>].offset # -1}
  IN SumOver(counted,
             [p \in counted |-> table[t][p] - resp[<<t, p>>].offset])

\* Lines 617-654: what is sent for one consumed topic of the response.
GroupTopicSamples(g, table, resp, t) ==
  {Metric("consumergroup_current_offset", g, t, p, resp[<<t, p>>].offset) :
     p \in Reported(resp, t)}
  \cup {Metric("consumergroup_lag", g, t, p, Lag(table[t][p], resp[<<t, p>>].offset)) :
     p \in {q \in Reported(resp, t) : HasOffset(table, t, q)}}
  \cup {Metric("consumergroup_current_offset_sum", g, t, -1, CurrentOffsetSum(resp, t))}
  \cup {Metric("consumergroup_lag_sum", g, t, -1, LagSum(table, resp, t))}

\* Lines 603-655.
GroupSamples(g, table, resp) ==
  UNION {GroupTopicSamples(g, table, resp, t) :
           t \in {u \in RespTopics(resp) : TopicConsumed(resp, u)}}

\* The reads of line 631 made while the response is processed.
GroupLookups(table, resp) ==
  {[topic |-> k[1], partition |-> k[2],
    ok |-> HasOffset(table, k[1], k[2]),
    value |-> IF HasOffset(table, k[1], k[2]) THEN table[k[1]][k[2]] ELSE 0] :
     k \in {x \in DOMAIN resp : TopicConsumed(resp, x[1]) /\ ~resp[x].err}}

\* Line 594.
MembersSample(g) == Metric("consumergroup_members", g, 0, -1, MemberCount(g))

(***************************************************************************)
(* Exporter.collect: the topic phase (lines 363-545).                      *)
(***************************************************************************)
\* Lines 519-525.
minx(x, y) == IF x < y THEN x ELSE y

\* Lines 527-530: the number of loopTopics goroutines started.
WorkerCount(n, w) == IF n > 1 THEN minx(n \div 2, w) ELSE n

\* The goroutines of lines 532-535 are numbered 1..N.
PoolIds == 1..(IF MaxWorkers > 1 THEN MaxWorkers ELSE 1)

Idle == [st |-> "none", topic |-> 0, part |-> 0]

Receiving == [st |-> "recv", topic |-> 0, part |-> 0]

Exited == [st |-> "exit", topic |-> 0, part |-> 0]

\* Line 374: every run makes a map of its own.
SharedTable(r) == 1

TableOf(r) == r

\* Lines 545 and 665: wg.Wait().
NoBarrier(n) == TRUE

WaitGroupDone(n) == n = 0

\* Line 537: the range loop moves on to the next topic.
SameIndex(i) == i

NextIndex(i) == i + 1

\* ch <- metric, for the samples of one step.
Emit(r, S) == emitted' = [emitted EXCEPT ![r] = @ (+) SetToBag(S)]

\* Runs are numbered in the order in which they begin.
\* Lines 363-393 and 527-535: the broker samples, a fresh offset map, the
\* topic list; with the topic list, N workers are started.
Begin(r) ==
  /\ r <= numRuns
  /\ mainPc[r] = "idle"
  /\ \A q \in Runs : q < r => mainPc[q] # "idle"
  /\ Emit(r, BrokerMetrics(brokers))
  /\ offset' = [offset EXCEPT ![TableOf(r)] = EmptyMap]
  /\ \E ok \in BOOLEAN :
       IF ok
         THEN /\ mainPc' = [mainPc EXCEPT ![r] = "dispatch"]
              /\ di' = [di EXCEPT ![r] = 1]
              /\ worker' = [worker EXCEPT ![r] =
                   [w \in PoolIds |->
                      IF w <= WorkerCount(Len(topics), topicWorkers)
                        THEN Receiving ELSE Idle]]
         ELSE /\ mainPc' = [mainPc EXCEPT ![r] = "returned"]
              /\ UNCHANGED <<di, worker>>
  /\ UNCHANGED <<configVars, chanClosed, wg, task, handed, finished, fetched, lookups, results, groupLog>>
  /\ UNCHANGED coordVars

\* Lines 537-539: a topic that passes the filters is counted in wg, any
\* other is skipped.
Dispatch(r) ==
  /\ mainPc[r] = "dispatch"
  /\ di[r] <= Len(topics)
  /\ IF Accepted(topics[di[r]])
       THEN /\ wg' = [wg EXCEPT ![r] = @ + 1]
            /\ mainPc' = [mainPc EXCEPT ![r] = "send"]
            /\ UNCHANGED di
       ELSE /\ di' = [di EXCEPT ![r] = NextIndex(@)]
            /\ UNCHANGED <<wg, mainPc>>
  /\ UNCHANGED <<configVars, chanClosed, worker, task, offset, emitted, handed, finished,
                 fetched, lookups, results, groupLog>>
  /\ UNCHANGED coordVars

\* Lines 540 and 510: topicChannel is unbuffered, the send completes with the
\* receive of a worker waiting in loopTopics.  The workers are
\* interchangeable; the one with the smallest number takes the topic.
DispatchSend(r) ==
  /\ mainPc[r] = "send"
  /\ \E w \in PoolIds :
       /\ worker[r][w].st = "recv"
       /\ \A v \in PoolIds : v < w => worker[r][v].st # "recv"
       /\ worker' = [worker EXCEPT ![r][w] =
                       [st |-> "start", topic |-> topics[di[r]], part |-> 0]]
       /\ handed' = [handed EXCEPT ![r] = @ (+) SetToBag({<<topics[di[r]], w>>})]
  /\ di' = [di EXCEPT ![r] = NextIndex(@)]
  /\ mainPc' = [mainPc EXCEPT ![r] = "dispatch"]
  /\ UNCHANGED <<configVars, chanClosed, wg, task, offset, emitted, finished, fetched,
                 lookups, results, groupLog>>
  /\ UNCHANGED coordVars

\* Line 543.
CloseChannel(r) ==
  /\ mainPc[r] = "dispatch"
  /\ di[r] > Len(topics)
  /\ chanClosed' = [chanClosed EXCEPT ![r] = TRUE]
  /\ mainPc' = [mainPc EXCEPT ![r] = "wait"]
  /\ UNCHANGED <<configVars, di, wg,
                 worker, task, offset, emitted, handed, finished, fetched,
                 lookups, results, groupLog>>
  /\ UNCHANGED coordVars

\* Lines 509-516: the receive reports the closed channel, the loop ends.
WorkerExit(r, w) ==
  /\ worker[r][w].st = "recv"
  /\ chanClosed[r]
  /\ worker' = [worker EXCEPT ![r][w] = Exited]
  /\ UNCHANGED <<configVars, mainPc,
                 di, chanClosed, wg, task, offset, emitted, handed, finished,
                 fetched, lookups, results, groupLog>>
  /\ UNCHANGED coordVars

\* getTopicMetrics returns: the deferred wg.Done() of line 398, and the
\* worker is back at the receive of line 510.
TopicReturns(r, w) ==
  /\ wg' = [wg EXCEPT ![r] = @ - 1]
  /\ finished' = [finished EXCEPT ![r] = @ (+) SetToBag({worker[r][w].topic})]
  /\ worker' = [worker EXCEPT ![r][w] = Receiving]

\* Lines 401-416: the filters, client.Partitions, the partition count
\* sample, and the topic's entry in the offset map.
TopicStart(r, w) ==
  /\ worker[r][w].st = "start"
  /\ LET t == worker[r][w].topic
     IN \E ok \in BOOLEAN :
          IF Accepted(t) /\ ok
            THEN /\ Emit(r, {Metric("topic_partitions", 0, t, -1,
                                    Cardinality(PartitionsOf(t)))})
                 /\ offset' = [offset EXCEPT ![TableOf(r)] = TableReset(@, t)]
                 /\ IF PartitionsOf(t) = {}
                      THEN TopicReturns(r, w)
                      ELSE /\ worker' = [worker EXCEPT ![r][w].st = "part"]
                           /\ UNCHANGED <<wg, finished>>
            ELSE /\ TopicReturns(r, w)
                 /\ UNCHANGED <<offset, emitted>>
  /\ UNCHANGED <<configVars, mainPc,
                 di, chanClosed, task, handed, fetched, lookups, results, groupLog>>
  /\ UNCHANGED coordVars

\* What a fetch of attribute a can return: one of the values vals or,
\* when the attribute is among fetchFaults, an error.
Outcomes(a, vals) ==
  {Ok(v) : v \in vals} \cup (IF a \in fetchFaults THEN {Failed} ELSE {})

\* The results of the five fetches of lines 418-457 for one partition,
\* each a value the cluster holds for it in partitionLog or an error.  A
\* successful Replicas or InSyncReplicas call returns a non-nil slice,
\* empty when the list is empty.
FetchResults(t, p) ==
  {[leader |-> l, cur |-> c, old |-> o, replicas |-> rp, isr |-> i] :
     l \in Outcomes("leader", partitionLog[<<t, p>>].leader),
     c \in Outcomes("cur", partitionLog[<<t, p>>].newest),
     o \in Outcomes("old", {partitionLog[<<t, p>>].oldest}),
     rp \in Outcomes("replicas", partitionLog[<<t, p>>].replicas),
     i \in Outcomes("isr", partitionLog[<<t, p>>].isr)}

\* Lines 417-484: one partition of the topic; after the last one
\* getTopicMetrics returns.
PartitionStep(r, w) ==
  /\ worker[r][w].st = "part"
  /\ LET t == worker[r][w].topic
         p == worker[r][w].part
     IN \E res \in FetchResults(t, p) :
          /\ Emit(r, PartitionSamples(t, p, res))
          /\ results' = [results EXCEPT ![r] = @ \cup {<<t, p, res>>}]
          /\ IF res.cur.ok
               THEN /\ offset' = [offset EXCEPT ![TableOf(r)] =
                                    TableSet(@, t, p, res.cur.val)]
                    /\ fetched' = [fetched EXCEPT ![r] =
                                    @ \cup {<<t, p, res.cur.val>>}]
               ELSE UNCHANGED <<offset, fetched>>
          /\ IF p + 1 \in PartitionsOf(t)
               THEN /\ worker' = [worker EXCEPT ![r][w].part = p + 1]
                    /\ UNCHANGED <<wg, finished>>
               ELSE TopicReturns(r, w)
  /\ UNCHANGED <<configVars, mainPc,
                 di, chanClosed, task, handed, lookups, groupLog>>
  /\ UNCHANGED coordVars

(***************************************************************************)
(* Exporter.collect: the consumer-group phase (lines 545-669).             *)
(***************************************************************************)
NoTask == [st |-> "none", todo |-> {}]

\* Lines 545 and 659-668: after wg.Wait(), one getConsumerGroupMetrics
\* goroutine per broker, each counted in wg; without brokers collect
\* returns.
TopicWait(r) ==
  /\ mainPc[r] = "wait"
  /\ WaitGroupDone(wg[r])
  /\ IF brokers # {}
       THEN /\ wg' = [wg EXCEPT ![r] = @ + Cardinality(brokers)]
            /\ task' = [task EXCEPT ![r] =
                          [b \in 1..NumBrokers |->
                             IF b \in brokers
                               THEN [st |-> "open", todo |-> {}] ELSE NoTask]]
            /\ mainPc' = [mainPc EXCEPT ![r] = "wait2"]
       ELSE /\ mainPc' = [mainPc EXCEPT ![r] = "returned"]
            /\ UNCHANGED <<wg, task>>
  /\ UNCHANGED <<configVars, di,
                 chanClosed, worker, offset, emitted, handed, finished, fetched,
                 lookups, results, groupLog>>
  /\ UNCHANGED coordVars

\* The task returns: the deferred wg.Done() of line 548.
TaskReturns(r, b) ==
  /\ task' = [task EXCEPT ![r][b] = [st |-> "done", todo |-> {}]]
  /\ wg' = [wg EXCEPT ![r] = @ - 1]

\* Lines 549-571: broker.Open, ListGroups and DescribeGroups; when one of
\* them fails the task returns.
TaskOpen(r, b) ==
  /\ task[r][b].st = "open"
  /\ \E ok \in BOOLEAN :
       IF ok
         THEN /\ task' = [task EXCEPT ![r][b] =
                            [st |-> "groups", todo |-> DescribedGroups(b)]]
              /\ groupLog' = [groupLog EXCEPT ![r] =
                                @ \cup {[broker |-> b, group |-> 0,
                                         outcome |-> "described", req |-> {}]}]
              /\ UNCHANGED wg
         ELSE /\ TaskReturns(r, b)
              /\ UNCHANGED groupLog
  /\ UNCHANGED <<configVars, mainPc,
                 di, chanClosed, worker, offset, emitted, handed, finished,
                 fetched, lookups, results>>
  /\ UNCHANGED coordVars

\* Lines 572-656, one iteration of the loop over describeGroups.Groups:
\* the request, the member count sample, broker.FetchOffset and the
\* samples of the response.  A member assignment that cannot be parsed
\* makes the task return (line 585); a failed FetchOffset skips the group
\* (line 600).  The groups are taken in the order of their numbers.
TaskGroup(r, b) ==
  /\ task[r][b].st = "groups"
  /\ \E g \in task[r][b].todo :
     \E outcome \in {"ok", "fetchErr", "parseErr"} :
       LET table == offset[TableOf(r)]
           req == OffsetFetchRequest(offsetShowAll, table, g)
           resp == FetchOffsetResponse(g, req)
       IN /\ \A h \in task[r][b].todo : g <= h
          /\ groupLog' = [groupLog EXCEPT ![r] =
                            @ \cup {[broker |-> b, group |-> g,
                                     outcome |-> outcome,
                                     req |-> IF outcome = "parseErr"
                                               THEN {} ELSE req]}]
          /\ IF outcome = "parseErr"
               THEN /\ ~offsetShowAll
                    /\ TaskReturns(r, b)
                    /\ UNCHANGED <<emitted, lookups>>
               ELSE /\ task' = [task EXCEPT ![r][b].todo = @ \ {g}]
                    /\ UNCHANGED wg
                    /\ IF outcome = "fetchErr"
                         THEN /\ Emit(r, {MembersSample(g)})
                              /\ UNCHANGED lookups
                         ELSE /\ Emit(r, {MembersSample(g)}
                                           \cup GroupSamples(g, table, resp))
                              /\ lookups' = [lookups EXCEPT ![r] =
                                               @ \cup GroupLookups(table, resp)]
  /\ UNCHANGED <<configVars, mainPc,
                 di, chanClosed, worker, offset, handed, finished, fetched,
                 results>>
  /\ UNCHANGED coordVars

\* Lines 572 and 657: the loop over the groups is over, the task returns.
TaskDone(r, b) ==
  /\ task[r][b].st = "groups"
  /\ task[r][b].todo = {}
  /\ TaskReturns(r, b)
  /\ UNCHANGED <<configVars, mainPc,
                 di, chanClosed, worker, offset, emitted, handed, finished,
                 fetched, lookups, results, groupLog>>
  /\ UNCHANGED coordVars

\* Lines 665 and 669: wg.Wait(), then collect returns.
GroupWait(r) ==
  /\ mainPc[r] = "wait2"
  /\ WaitGroupDone(wg[r])
  /\ mainPc' = [mainPc EXCEPT ![r] = "returned"]
  /\ UNCHANGED <<configVars, di,
                 chanClosed, wg, worker, task, offset, emitted, handed,
                 finished, fetched, lookups, results, groupLog>>
  /\ UNCHANGED coordVars

(***************************************************************************)
(* Initial states and specifications.                                      *)
(***************************************************************************)
\* The pipeline layer before any run.
RunStart ==
  /\ mainPc = [r \in Runs |-> "idle"]
  /\ di = [r \in Runs |-> 0]
  /\ chanClosed = [r \in Runs |-> FALSE]
  /\ wg = [r \in Runs |-> 0]
  /\ worker = [r \in Runs |-> [w \in PoolIds |-> Idle]]
  /\ task = [r \in Runs |-> [b \in 1..NumBrokers |-> NoTask]]
  /\ offset = [r \in Runs |-> EmptyMap]
  /\ emitted = [r \in Runs |-> EmptyBag]
  /\ handed = [r \in Runs |-> EmptyBag]
  /\ finished = [r \in Runs |-> EmptyBag]
  /\ fetched = [r \in Runs |-> {}]
  /\ lookups = [r \in Runs |-> {}]
  /\ results = [r \in Runs |-> {}]
  /\ groupLog = [r \in Runs |-> {}]

\* The partitions of the cluster.
PartitionKeys == (1..MaxTopics) \X (0..(NumPartitions - 1))

\* A partition with the given newest offsets and oldest offset, led by
\* broker 1, with the replicas 1 and 2 of which broker 1 is in sync.
LogOf(newest, oldest) ==
  [newest |-> newest, oldest |-> oldest, leader |-> {1},
   replicas |-> {<<1, 2>>}, isr |-> {<<1>>}]

\* Every partition has the oldest offset 0 and a newest offset of
\* 1..MaxOffset.
FixedLog == [k \in PartitionKeys |-> LogOf(1..MaxOffset, 0)]

\* The pipeline layer while only the coordinator is looked at.
RunIdle ==
  /\ topics = <<>>
  /\ topicWorkers = 1
  /\ offsetShowAll = FALSE
  /\ brokers = 1..NumBrokers
  /\ groupFilter = Groups
  /\ groupOffsets = FixedOffsets
  /\ partitionLog = FixedLog
  /\ fetchFaults = {"cur"}
  /\ numRuns = 0
  /\ RunStart

\* The coordinator layer while only the pipeline is looked at: every
\* Collect call runs collect itself (allowConcurrent).
CoordIdle ==
  /\ allowConcurrent = TRUE
  /\ abandoned = {}
  /\ sgMutex = 0
  /\ sgChans = <<>>
  /\ sgWaitCh = 0
  /\ closedCh = {}
  /\ callPc = [c \in Calls |-> "idle"]
  /\ waiter = [c \in Calls |-> 0]
  /\ out = [c \in Calls |-> <<>>]
  /\ runPc = [c \in Calls |-> "none"]
  /\ sent = [c \in Calls |-> <<>>]
  /\ pending = [c \in Calls |-> NoSample]
  /\ container = [c \in Calls |-> <<>>]
  /\ hi = 0
  /\ hj = 0
  /\ snap = <<>>

\* The configurations explored:
\*  - one run with any topic list and any worker count, one broker;
\*  - one run with the topics 1..3 (an accepted one, one that matches no
\*    filter, an excluded one), one worker, any number of brokers;
\*  - several runs with one topic, one worker and one broker.
Configurations ==
  {[n |-> n, w |-> w, nb |-> 1, runs |-> 1] :
     n \in 0..MaxTopics, w \in -1..MaxWorkers}
  \cup {[n |-> 3, w |-> 1, nb |-> nb, runs |-> 1] : nb \in 0..NumBrokers}
  \cup {[n |-> 1, w |-> 1, nb |-> 1, runs |-> k] : k \in Runs}

RunInit ==
  /\ \E c \in Configurations :
       /\ topics = [i \in 1..c.n |-> i]
       /\ topicWorkers = c.w
       /\ brokers = 1..c.nb
       /\ numRuns = c.runs
  /\ offsetShowAll \in BOOLEAN
  /\ groupFilter = Groups
  /\ groupOffsets = FixedOffsets
  /\ partitionLog = FixedLog
  /\ fetchFaults = {"cur"}
  /\ RunStart

\* The blocks a broker can answer with: without an error, a committed
\* offset from -1 (none) to one past the largest newest offset; with an
\* error, the offset -1 or 1.
Blocks ==
  [offset : -1..(MaxOffset + 1), err : {FALSE}]
  \cup [offset : {-1, 1}, err : {TRUE}]

\* One run on a cluster with one topic and one broker, with a group filter
\* that matches group 1 only, where group 1 has any blocks for the
\* partitions of that topic.
GroupInit ==
  /\ topics = <<1>>
  /\ topicWorkers = 1
  /\ brokers = {1}
  /\ numRuns = 1
  /\ offsetShowAll \in BOOLEAN
  /\ groupFilter = {1}
  /\ \E f \in [PartitionsOf(1) -> Blocks] :
       groupOffsets = [k \in OffsetKeys |->
                         IF k[1] = 1 /\ k[2] = 1
                           THEN f[k[3]]
                           ELSE [offset |-> -1, err |-> FALSE]]
  /\ partitionLog = FixedLog
  /\ fetchFaults = {"cur"}
  /\ RunStart

\* One run on a cluster with one broker, one topic of two partitions with
\* the newest and oldest offsets 10 and 5 (partition 0) and 20 and 0
\* (partition 1), and one group with the committed offset 7 on partition 0
\* and none on partition 1.
ScenarioInit ==
  /\ topics = <<1>>
  /\ topicWorkers = 1
  /\ brokers = {1}
  /\ numRuns = 1
  /\ offsetShowAll \in BOOLEAN
  /\ groupFilter = {1}
  /\ groupOffsets = [k \in OffsetKeys |->
                       [offset |-> IF k = <<1, 1, 0>> THEN 7 ELSE -1,
                        err |-> FALSE]]
  /\ partitionLog = [k \in PartitionKeys |->
                       IF k[2] = 0 THEN LogOf({10}, 5)
                                   ELSE LogOf({20}, 0)]
  /\ fetchFaults = {"cur"}
  /\ RunStart

\* One run on a cluster without brokers and with one topic, where each of
\* the five fetches of a partition can fail.
TopicInit ==
  /\ topics = <<1>>
  /\ topicWorkers = 1
  /\ brokers = {}
  /\ numRuns = 1
  /\ offsetShowAll \in BOOLEAN
  /\ groupFilter = Groups
  /\ groupOffsets = FixedOffsets
  /\ partitionLog = [k \in PartitionKeys |-> LogOf({1}, 0)]
  /\ fetchFaults = {"leader", "cur", "old", "replicas", "isr"}
  /\ RunStart

\* The leaders, replica lists and in-sync lists a partition can have.
Replications ==
  [newest |-> {1}, oldest |-> 0, leader |-> {1, 2},
   replicas |-> {<<>>, <<1, 2>>, <<2, 1>>, <<1, 2, 3>>},
   isr |-> {<<>>, <<1>>, <<1, 2>>}]

\* One run on a cluster without brokers and with one topic, where the
\* leader, the replicas and the in-sync replicas of a partition are any of
\* Replications and each of their fetches can fail.
ReplicaInit ==
  /\ topics = <<1>>
  /\ topicWorkers = 1
  /\ brokers = {}
  /\ numRuns = 1
  /\ offsetShowAll = FALSE
  /\ groupFilter = Groups
  /\ groupOffsets = FixedOffsets
  /\ partitionLog = [k \in PartitionKeys |-> Replications]
  /\ fetchFaults = {"leader", "replicas", "isr"}
  /\ RunStart

\* One run on a cluster with one broker, for every topic list and every
\* worker count, where every fetch of the topic phase succeeds.
PoolInit ==
  /\ \E n \in 0..MaxTopics : topics = [i \in 1..n |-> i]
  /\ topicWorkers \in -1..MaxWorkers
  /\ brokers = {1}
  /\ numRuns = 1
  /\ offsetShowAll = FALSE
  /\ groupFilter = Groups
  /\ groupOffsets = FixedOffsets
  /\ partitionLog = [k \in PartitionKeys |-> LogOf({1}, 0)]
  /\ fetchFaults = {}
  /\ RunStart

\* The steps of collect up to wg.Wait() of line 545.
TopicNext ==
  \E r \in Runs :
    \/ Begin(r)
    \/ Dispatch(r)
    \/ DispatchSend(r)
    \/ CloseChannel(r)
    \/ TopicWait(r)
    \/ \E w \in PoolIds :
         \/ WorkerExit(r, w)
         \/ TopicStart(r, w)
         \/ PartitionStep(r, w)

RunNext ==
  \E r \in Runs :
    \/ Begin(r)
    \/ Dispatch(r)
    \/ DispatchSend(r)
    \/ CloseChannel(r)
    \/ TopicWait(r)
    \/ GroupWait(r)
    \/ \E w \in PoolIds :
         \/ WorkerExit(r, w)
         \/ TopicStart(r, w)
         \/ PartitionStep(r, w)
    \/ \E b \in 1..NumBrokers :
         \/ TaskOpen(r, b)
         \/ TaskGroup(r, b)
         \/ TaskDone(r, b)

vars == <<coordVars, runVars>>

CoordSpecInit == CoordInit /\ RunIdle

SpecInit == RunInit /\ CoordIdle

\* Exporter.Collect and Exporter.collectChans.
CoordSpec == CoordSpecInit /\ [][CoordNext]_vars

\* Exporter.Collect and Exporter.collectChans with a caller that may give
\* up, under fair scheduling of the goroutines.
AbandonSpec == CoordSpecInit /\ [][AbandonNext]_vars /\ CoordFairness

GroupSpecInit == GroupInit /\ CoordIdle

\* Exporter.collect.
Spec == SpecInit /\ [][RunNext]_vars

TopicSpecInit == TopicInit /\ CoordIdle

\* The topic phase of Exporter.collect, for any failing fetches.
TopicSpec == TopicSpecInit /\ [][TopicNext]_vars

\* The dispatch loop, every worker goroutine and every consumer-group
\* goroutine take the steps they can take; a cluster call returns.
RunFairness ==
  \A r \in Runs :
    /\ WF_vars(Dispatch(r))
    /\ WF_vars(DispatchSend(r))
    /\ WF_vars(CloseChannel(r))
    /\ WF_vars(TopicWait(r))
    /\ WF_vars(GroupWait(r))
    /\ \A w \in PoolIds :
         /\ WF_vars(WorkerExit(r, w))
         /\ WF_vars(TopicStart(r, w))
         /\ WF_vars(PartitionStep(r, w))
    /\ \A b \in 1..NumBrokers :
         /\ WF_vars(TaskOpen(r, b))
         /\ WF_vars(TaskGroup(r, b))
         /\ WF_vars(TaskDone(r, b))

PoolSpecInit == PoolInit /\ CoordIdle

\* Exporter.collect for every worker count, under fair scheduling of its
\* goroutines.
PoolSpec == PoolSpecInit /\ [][RunNext]_vars /\ RunFairness

\* Exporter.Collect and Exporter.collectChans under fair scheduling of the
\* goroutines, with callers that keep receiving.
FairCoordSpec == CoordSpecInit /\ [][CoordNext]_vars /\ CoordFairness

ReplicaSpecInit == ReplicaInit /\ CoordIdle

\* The topic phase of Exporter.collect, for any leader and replica lists.
ReplicaSpec == ReplicaSpecInit /\ [][TopicNext]_vars

ScenarioSpecInit == ScenarioInit /\ CoordIdle

\* Exporter.collect on the cluster of the end-to-end scenario.
ScenarioSpec == ScenarioSpecInit /\ [][RunNext]_vars

\* Exporter.collect on a small cluster, for any committed offsets.
GroupSpec == GroupSpecInit /\ [][RunNext]_vars

(***************************************************************************)
(* Claims about the coordinator (checked under CoordSpec).                 *)
(***************************************************************************)
\* A run exists from the moment line 326 starts collectChans until its
\* hand-off has released sgMutex.
ActiveRuns == {r \in Calls : runPc[r] \notin {"none", "done"}}

\* The run is executing collect (line 346).
InCollect(r) == runPc[r] \in {"brokers", "info", "topics", "pipeline"}

\* C1: with coalescing enabled there is never more than one run, and every
\* call that waits on a run that has not finished is in sgChans, behind the
\* call that started that run, and waits on that run's channel.
C1_SingleFlight ==
  ~allowConcurrent =>
    /\ Cardinality(ActiveRuns) <= 1
    /\ \A c \in Calls :
         (callPc[c] = "wait" /\ waiter[c] \notin closedCh) =>
           /\ ActiveRuns = {waiter[c]}
           /\ c \in Range(sgChans)
           /\ sgChans[1] = waiter[c]
           /\ (c # waiter[c] => runPc[c] = "none")

C1_Witness ==
  /\ ~allowConcurrent
  /\ Len(sgChans) = MaxCalls
  /\ \E r \in Calls : InCollect(r) /\ Len(sent[r]) > 0

\* C2: when a run has handed off, every call registered on it has received
\* the same sequence of samples, and that sequence has no sample twice.
C2_SameSequence ==
  \A r \in Calls :
    (~allowConcurrent /\ runPc[r] = "done") =>
      \A c \in Calls :
        waiter[c] = r =>
          /\ out[c] = out[r]
          /\ \A i, j \in 1..Len(out[c]) : out[c][i] = out[c][j] => i = j

\* C3: a call that registers (line 322) when no run is left, because the
\* hand-off of the last one reset sgChans, starts a run of its own; no call
\* ever takes a closed channel as its `waiter`, nor the channel of a run
\* that is handing off or has finished; and a call only ever receives
\* samples of the run whose channel it waits on.
C3_Registers(c) == callPc[c] = "idle" /\ callPc'[c] = "wait"

C3_NewRunAfterHandoff ==
  /\ [](\A c \in Calls :
          ~allowConcurrent =>
            \A i \in 1..Len(out[c]) : out[c][i].run = waiter[c])
  /\ [][\A c \in Calls :
          C3_Registers(c) =>
            /\ waiter'[c] # 0
            /\ waiter'[c] \notin closedCh'
            /\ runPc'[waiter'[c]] \notin {"none", "handoff", "done"}
            /\ (ActiveRuns = {} =>
                  /\ waiter'[c] = c
                  /\ runPc'[c] = "brokers"
                  /\ sent'[c] = <<>>
                  /\ container'[c] = <<>>)]_vars

C3_Witness ==
  \E r, c \in Calls :
    /\ r # c
    /\ runPc[r] = "done"
    /\ waiter[r] = r
    /\ waiter[c] = c
    /\ Len(out[c]) > 0
    /\ Len(out[r]) > 0

\* C4: whenever the hand-off ranges over the buffer (line 351), the buffer
\* holds every sample the run's collect has sent, in the order sent.
C4_BufferComplete ==
  \A r \in Calls :
    (runPc[r] = "handoff" /\ hi <= Len(sgChans)) => snap = sent[r]


\* C18: every registered call whose caller keeps receiving eventually
\* returns, also when the caller of another call of the same run has
\* stopped receiving.
C18_OthersReturn ==
  \A c \in Calls :
    (callPc[c] = "wait" /\ c \notin abandoned)
      ~> (callPc[c] = "returned" \/ c \in abandoned)

\* C19: with allowConcurrent, no call is ever in sgChans or waits for a
\* wait channel; every call that was made has a run of its own, which sends
\* on the call's ch and ends when the call returns.
C19_Independent ==
  allowConcurrent =>
    /\ sgChans = <<>>
    /\ sgWaitCh = 0
    /\ \A c \in Calls :
         /\ callPc[c] # "wait"
         /\ waiter[c] = 0
         /\ callPc[c] = "idle" <=> runPc[c] = "none"
         /\ callPc[c] = "collect" <=> InCollect(c)
         /\ callPc[c] = "returned" <=> runPc[c] = "done"
         /\ out[c] = sent[c]
         /\ \A i \in 1..Len(out[c]) : out[c][i].run = c

\* C19: with allowConcurrent, the runs of three calls are in collect at the
\* same time, each having sent samples.
C19_Witness ==
  /\ allowConcurrent
  /\ \A c \in Calls : callPc[c] = "collect" /\ InCollect(c) /\ Len(out[c]) >= 1

\* Run r has ended after the broker samples, as it does when
\* client.Topics() fails.
EndedAtTopics(r) ==
  /\ runPc[r] = "done"
  /\ Len(sent[r]) = BrokerSamples
  /\ \A i \in 1..Len(sent[r]) : sent[r][i].kind \in {"brokers", "broker_info"}

\* C20: with coalescing, when a run that ended after the broker samples
\* has handed off, its wait channel is closed and every call that waited
\* on it has received exactly the broker samples the run sent.
C20_PartialResultShared ==
  \A r \in Calls :
    (~allowConcurrent /\ EndedAtTopics(r)) =>
      /\ r \in closedCh
      /\ \A c \in Calls : waiter[c] = r => out[c] = sent[r]

(***************************************************************************)
(* Properties of Exporter.collect.                                         *)
(***************************************************************************)
\* The consumer-group phase of run r has begun: a task exists or a lookup
\* in the offset map was made.
GroupPhaseBegun(r) ==
  \/ \E b \in 1..NumBrokers : task[r][b].st # "none"
  \/ lookups[r] # {}

\* The workers of run r that are inside getTopicMetrics.
Busy(r) == {w \in PoolIds : worker[r][w].st \in {"start", "part"}}

\* The workers of run r that were started.
Started(r) == {w \in PoolIds : worker[r][w].st # "none"}

\* The topics of the list that pass the filters.
AcceptedTopics == {topics[i] : i \in {j \in 1..Len(topics) : Accepted(topics[j])}}

\* C5: within a run, when a consumer-group task exists or a lookup in the
\* offset map was made, the dispatch loop is over, no worker is inside
\* getTopicMetrics (where the offset map is written) and every topic that
\* was handed to a worker has finished.
C5_TopicsBeforeGroups ==
  \A r \in Runs :
    GroupPhaseBegun(r) =>
      /\ mainPc[r] \in {"wait2", "returned"}
      /\ chanClosed[r]
      /\ Busy(r) = {}
      /\ \A h \in BagToSet(handed[r]) :
           CopiesIn(h[1], finished[r]) = CopiesIn(h, handed[r])
      /\ \A t \in AcceptedTopics : BagIn(t, finished[r])

\* C5: a task is processing groups after two topics were handed out and
\* their offsets were written.
C5_Witness ==
  \E r \in Runs :
    /\ \E b \in 1..NumBrokers : task[r][b].st = "groups"
    /\ BagCardinality(handed[r]) >= 2
    /\ fetched[r] # {}

\* C6: every lookup of the consumer-group phase of a run finds an offset
\* exactly when this run fetched the newest offset of that partition, and
\* then it finds the value this run fetched.
C6_OwnOffsets ==
  \A r \in Runs :
    \A lk \in lookups[r] :
      LET vals == {f[3] : f \in {x \in fetched[r] :
                                   x[1] = lk.topic /\ x[2] = lk.partition}}
      IN IF lk.ok THEN vals = {lk.value} ELSE vals = {}

\* C6: two runs fetched different newest offsets for one partition and
\* each of them looked its own value up.
C6_Witness ==
  \E r1, r2 \in Runs :
    \E l1 \in lookups[r1], l2 \in lookups[r2] :
      /\ r1 # r2
      /\ l1.topic = l2.topic /\ l1.partition = l2.partition
      /\ l1.ok /\ l2.ok
      /\ l1.value # l2.value

\* The pool size of the specification text.
SpecifiedWorkers(n, w) ==
  IF n = 0 THEN 0
  ELSE LET m == minx(n \div 2, w) IN IF m < 1 THEN 1 ELSE m

\* C7: once the workers of a run are started, their number is
\* min(len(topics) / 2, topicWorkers), at least 1 when there is a topic, and
\* no more topics than that are in getTopicMetrics at a time.
C7_WorkerCount ==
  \A r \in Runs :
    mainPc[r] \in {"dispatch", "send", "wait", "wait2"} =>
      /\ Cardinality(Started(r)) = SpecifiedWorkers(Len(topics), topicWorkers)
      /\ Cardinality(Busy(r)) <= SpecifiedWorkers(Len(topics), topicWorkers)

\* The workers a topic was handed to in run r.
HandedTo(r, t) == {w \in PoolIds : BagIn(<<t, w>>, handed[r])}

\* C8: only topics that pass the filters are handed out, each to one
\* worker and once; a topic finishes at most once and only after it was
\* handed out; a topic handed out and not finished is the one topic its
\* worker is processing; and when the topic phase is over every accepted
\* topic of the list has finished exactly once.
C8_EachTopicOnce ==
  \A r \in Runs :
    /\ \A h \in BagToSet(handed[r]) :
         /\ Accepted(h[1])
         /\ CopiesIn(h, handed[r]) = 1
         /\ HandedTo(r, h[1]) = {h[2]}
         /\ CopiesIn(h[1], finished[r]) = 0 =>
              /\ h[2] \in Busy(r)
              /\ worker[r][h[2]].topic = h[1]
    /\ \A t \in BagToSet(finished[r]) :
         /\ CopiesIn(t, finished[r]) = 1
         /\ HandedTo(r, t) # {}
    /\ \A w \in Busy(r) :
         /\ BagIn(<<worker[r][w].topic, w>>, handed[r])
         /\ ~BagIn(worker[r][w].topic, finished[r])
    /\ (mainPc[r] \in {"wait2", "returned"} /\ chanClosed[r]) =>
         /\ Busy(r) = {}
         /\ \A t \in AcceptedTopics : CopiesIn(t, finished[r]) = 1

\* C8: the topic phase of a run is over after two workers each processed
\* a topic.
C8_Witness ==
  \E r \in Runs :
    /\ mainPc[r] = "wait2"
    /\ \E t1, t2 \in AcceptedTopics :
         /\ t1 # t2
         /\ BagIn(<<t1, 1>>, handed[r])
         /\ BagIn(<<t2, 2>>, handed[r])
         /\ BagIn(t1, finished[r])
         /\ BagIn(t2, finished[r])

\* C9: no sample sent by a run carries a topic that matches both the
\* filter and the exclude pattern.
C9_NoExcludedTopic ==
  \A r \in Runs :
    \A s \in BagToSet(emitted[r]) :
      s.topic # 0 => ~(TopicFilterMatch(s.topic) /\ TopicExcludeMatch(s.topic))

(***************************************************************************)
(* Properties of getConsumerGroupMetrics.                                  *)
(***************************************************************************)
\* The consumergroup_lag samples sent by run r.
LagSamples(r) == {s \in BagToSet(emitted[r]) : s.name = "consumergroup_lag"}

\* C10: a consumergroup_lag sample of a group, topic and partition whose
\* committed offset is -1 has the value -1.
C10_NoOffsetLag ==
  \A r \in Runs :
    \A s \in LagSamples(r) :
      groupOffsets[<<s.group, s.topic, s.partition>>].offset = -1 =>
        s.value = -1

\* C10: a lag sample was sent for a partition without committed offset
\* whose newest offset this run fetched.
C10_Witness ==
  \E r \in Runs :
    \E s \in LagSamples(r) :
      /\ groupOffsets[<<s.group, s.topic, s.partition>>].offset = -1
      /\ \E f \in fetched[r] : f[1] = s.topic /\ f[2] = s.partition

\* The brokers whose groups were described in run r.
DescribedBrokers(r) ==
  {e.broker : e \in {x \in groupLog[r] : x.outcome = "described"}}

\* The iterations of run r that failed for their group.
GroupFailures(r) ==
  {e \in groupLog[r] : e.outcome \in {"parseErr", "fetchErr"}}

\* The loop of line 572 got to group g in run r.
Reached(r, g) == \E e \in groupLog[r] : e.group = g

\* C15: when a run is over, for every group whose member assignment or
\* offset fetch failed, every other described group of every broker was
\* processed.
C15_FailureSkipsOneGroup ==
  \A r \in Runs :
    mainPc[r] = "returned" =>
      \A e \in GroupFailures(r) :
        \A b \in DescribedBrokers(r) :
          \A g \in DescribedGroups(b) \ {e.group} : Reached(r, g)

\* C16: when a run is over, a consumergroup_members sample with the member
\* count was sent for every described group.
C16_MembersAlways ==
  \A r \in Runs :
    mainPc[r] = "returned" =>
      \A b \in DescribedBrokers(r) :
        \A g \in DescribedGroups(b) : BagIn(MembersSample(g), emitted[r])

\* The samples of run r with the name n for partition p of topic t.
PartitionSent(r, n, t, p) ==
  {s \in BagToSet(emitted[r]) : s.name = n /\ s.topic = t /\ s.partition = p}

\* The sample with the name n of a partition was sent, once and with the
\* value v, when the fetch result f is a success, and not at all when it
\* is a failure.
SentIffFetched(r, n, t, p, f, v) ==
  IF f.ok
    THEN /\ PartitionSent(r, n, t, p) = {Metric(n, 0, t, p, v)}
         /\ CopiesIn(Metric(n, 0, t, p, v), emitted[r]) = 1
    ELSE PartitionSent(r, n, t, p) = {}

\* C17: for every partition the loop of line 417 got to, each of the five
\* fetched attributes has its sample exactly when its fetch succeeded,
\* whatever the other fetches did; and when a topic whose partitions were
\* obtained has finished, the loop got to every partition of it.
C17_OnlyFailedOmitted ==
  \A r \in Runs :
    /\ \A x \in results[r] :
         LET t == x[1]
             p == x[2]
             res == x[3]
         IN /\ SentIffFetched(r, "topic_partition_leader", t, p,
                              res.leader, res.leader.val)
            /\ SentIffFetched(r, "topic_partition_current_offset", t, p,
                              res.cur, res.cur.val)
            /\ SentIffFetched(r, "topic_partition_oldest_offset", t, p,
                              res.old, res.old.val)
            /\ SentIffFetched(r, "topic_partition_replicas", t, p,
                              res.replicas, Len(res.replicas.val))
            /\ SentIffFetched(r, "topic_partition_in_sync_replica", t, p,
                              res.isr, Len(res.isr.val))
    /\ \A t \in BagToSet(finished[r]) :
         PartitionSent(r, "topic_partitions", t, -1) # {} =>
           \A p \in PartitionsOf(t) :
             \E x \in results[r] : x[1] = t /\ x[2] = p

\* C17: a topic has finished; for its partition 0 the newest offset and
\* the replicas could not be fetched while the other fetches succeeded, and
\* for its partition 1 every fetch succeeded.
C17_Witness ==
  \E r \in Runs :
    \E t \in BagToSet(finished[r]) :
      \E x, y \in results[r] :
        /\ x[1] = t /\ x[2] = 0
        /\ ~x[3].cur.ok /\ ~x[3].replicas.ok
        /\ x[3].leader.ok /\ x[3].old.ok /\ x[3].isr.ok
        /\ y[1] = t /\ y[2] = 1
        /\ y[3].leader.ok /\ y[3].cur.ok /\ y[3].old.ok
        /\ y[3].replicas.ok /\ y[3].isr.ok

\* The samples of run r with the name n for group g and topic t.
SamplesOf(r, n, g, t) ==
  {s \in BagToSet(emitted[r]) : s.name = n /\ s.group = g /\ s.topic = t}

\* The sum of the values of a set of samples.
ValueSum(S) == SumOver(S, [s \in S |-> s.value])

\* The <<group, topic>> pairs for which run r sent a consumer-group sample
\* with a topic label.
ReportedPairs(r) ==
  {<<s.group, s.topic>> :
     s \in {x \in BagToSet(emitted[r]) : x.group # 0 /\ x.topic # 0}}

\* C11: the consumergroup_lag_sum sample of a group and topic is the sum of
\* the consumergroup_lag samples of that group and topic whose value is
\* not -1.
C11_LagSumOfSamples ==
  \A r \in Runs :
    \A k \in ReportedPairs(r) :
      \A s \in SamplesOf(r, "consumergroup_lag_sum", k[1], k[2]) :
        s.value =
          ValueSum({x \in SamplesOf(r, "consumergroup_lag", k[1], k[2]) :
                      x.value # -1})

\* C12: for every reported group and topic there is one
\* consumergroup_current_offset_sum sample, sent once, and its value is the
\* sum of the consumergroup_current_offset samples of that group and topic,
\* each of which was sent once.
C12_OffsetSumOfSamples ==
  \A r \in Runs :
    \A k \in ReportedPairs(r) :
      LET sums == SamplesOf(r, "consumergroup_current_offset_sum", k[1], k[2])
          parts == SamplesOf(r, "consumergroup_current_offset", k[1], k[2])
      IN /\ Cardinality(sums) = 1
         /\ \A s \in sums \cup parts : CopiesIn(s, emitted[r]) = 1
         /\ \A s \in sums : s.value = ValueSum(parts)

\* C12: a sum was sent over two partitions, one of them without committed
\* offset.
C12_Witness ==
  \E r \in Runs :
    \E k \in ReportedPairs(r) :
      LET parts == SamplesOf(r, "consumergroup_current_offset", k[1], k[2])
      IN /\ Cardinality(parts) >= 2
         /\ \E s \in parts : s.value = -1
         /\ \E s \in parts : s.value > 0
         /\ SamplesOf(r, "consumergroup_current_offset_sum", k[1], k[2]) # {}

\* Run r is over, it fetched the newest offsets 10 and 20 of the two
\* partitions of topic 1, and the offset fetch of group 1 succeeded.
ScenarioRan(r) ==
  /\ mainPc[r] = "returned"
  /\ {<<1, 0, 10>>, <<1, 1, 20>>} \subseteq fetched[r]
  /\ \E e \in groupLog[r] : e.group = 1 /\ e.outcome = "ok"

\* C13: in the scenario, a run in which every fetch succeeded has sent
\* consumergroup_current_offset{1,1,0} = 7, consumergroup_lag{1,1,0} = 3,
\* consumergroup_lag{1,1,1} = -1, consumergroup_current_offset_sum{1,1} = 7
\* and consumergroup_lag_sum{1,1} = 3.
C13_Scenario ==
  \A r \in Runs :
    ScenarioRan(r) =>
      /\ BagIn(Metric("consumergroup_current_offset", 1, 1, 0, 7), emitted[r])
      /\ BagIn(Metric("consumergroup_lag", 1, 1, 0, 3), emitted[r])
      /\ BagIn(Metric("consumergroup_lag", 1, 1, 1, -1), emitted[r])
      /\ BagIn(Metric("consumergroup_current_offset_sum", 1, 1, -1, 7), emitted[r])
      /\ BagIn(Metric("consumergroup_lag_sum", 1, 1, -1, 3), emitted[r])

\* The iterations of run r whose offset fetch succeeded.
Answered(r) == {e \in groupLog[r] : e.outcome = "ok"}

\* Run r sent a sample for group g with the topic label t.
TopicReported(r, g, t) ==
  \E s \in BagToSet(emitted[r]) : s.group = g /\ s.topic = t

\* A partition of topic t in the response to e has a committed offset.
HasCommitted(e, t) ==
  \E k \in e.req :
    k[1] = t /\ groupOffsets[<<e.group, t, k[2]>>].offset # -1

\* C14: for every group whose offset fetch succeeded and every topic, a
\* sample of that group and topic was sent exactly when a partition of
\* the topic in the response has a committed offset other than -1.
C14_ReportedIffCommitted ==
  \A r \in Runs :
    \A e \in Answered(r) :
      \A t \in 1..MaxTopics :
        TopicReported(r, e.group, t) <=> HasCommitted(e, t)

\* C14: the response held both partitions of a topic, none with a
\* committed offset, and no sample was sent for the topic.
C14_Witness ==
  \E r \in Runs :
    \E e \in Answered(r) :
      \E t \in 1..MaxTopics :
        /\ Cardinality({k \in e.req : k[1] = t}) >= 2
        /\ ~HasCommitted(e, t)
        /\ ~TopicReported(r, e.group, t)

(***************************************************************************)
(* The derived samples of a partition (lines 466-484).                     *)
(***************************************************************************)
\* The values of the samples of the given name that run r emitted for
\* partition p of topic t, and how many such samples it emitted.
ValuesOf(r, n, t, p) ==
  {s.value : s \in {x \in DOMAIN emitted[r] :
                      x.name = n /\ x.topic = t /\ x.partition = p}}

CountOf(r, n, t, p) ==
  LET S == {x \in DOMAIN emitted[r] :
              x.name = n /\ x.topic = t /\ x.partition = p}
  IN SumOver(S, [x \in S |-> emitted[r][x]])

\* C21: for every processed partition whose replica list and in-sync list
\* were both fetched, the run emits exactly one under-replication sample,
\* and its value is 1 when the in-sync list is shorter than the replica
\* list (an empty in-sync list included) and 0 otherwise.
C21_UnderReplicated ==
  \A r \in Runs : \A x \in results[r] :
    (x[3].replicas.ok /\ x[3].isr.ok) =>
      /\ CountOf(r, "topic_partition_under_replicated_partition",
                 x[1], x[2]) = 1
      /\ ValuesOf(r, "topic_partition_under_replicated_partition",
                  x[1], x[2]) =
           {IF Len(x[3].isr.val) < Len(x[3].replicas.val) THEN 1 ELSE 0}

\* A partition with the replicas 1, 2, 3, the in-sync replicas 1, 2 and
\* the leader 1 was processed, and one with an empty in-sync list.
C21_Witness ==
  \E r \in Runs :
    /\ \E x \in results[r] :
         /\ x[3].leader = Ok(1)
         /\ x[3].replicas = Ok(<<1, 2, 3>>)
         /\ x[3].isr = Ok(<<1, 2>>)
         /\ ValuesOf(r, "topic_partition_under_replicated_partition",
                     x[1], x[2]) = {1}
    /\ \E x \in results[r] :
         /\ x[3].replicas = Ok(<<1, 2>>)
         /\ x[3].isr = Ok(<<>>)

CountedLag(r, g, t) ==
  {s \in SamplesOf(r, "consumergroup_lag", g, t) :
     groupOffsets[<<g, t, s.partition>>].offset # -1}

\* In every state: a key of a run's map is a partition whose newest offset
\* that run fetched, with that value; a lag sample is for a key of the
\* map; the lag sum of a group and topic is the sum over the lag samples.
TableSound ==
  \A r \in Runs :
    /\ \A k \in TableKeys(offset[r]) :
         <<k[1], k[2], offset[r][k[1]][k[2]]>> \in fetched[r]
    /\ \A s \in LagSamples(r) : HasOffset(offset[r], s.topic, s.partition)
    /\ \A s \in BagToSet(emitted[r]) :
         s.name = "consumergroup_lag_sum" =>
           s.value = ValueSum(CountedLag(r, s.group, s.topic))

\* In every step: a key that is present stays, with its value; the map
\* changes only in a step of a topic worker.
TableWrittenOnce ==
  /\ \A r \in Runs : \A k \in TableKeys(offset[r]) :
       /\ HasOffset(offset'[r], k[1], k[2])
       /\ offset'[r][k[1]][k[2]] = offset[r][k[1]][k[2]]
  /\ offset' # offset =>
       /\ task' = task
       /\ mainPc' = mainPc
       /\ \E r \in Runs : \E w \in PoolIds :
            /\ worker[r][w].st \in {"start", "part"}
            /\ worker'[r][w] # worker[r][w]

\* C23: within a run a key of the offset map is present only if its
\* newest-offset fetch succeeded in this run, is written at most once and
\* only by a topic worker; for an absent key the group phase sends no
\* consumergroup_lag sample and adds nothing to the lag sum.
C23_OffsetTable == []TableSound /\ [][TableWrittenOnce]_vars

\* A run looked up a partition that is absent from its map and one that is
\* present, for the same topic, and sent the lag sum of that topic.
C23_Witness ==
  \E r \in Runs : \E a, b \in lookups[r] :
    /\ a.topic = b.topic
    /\ ~a.ok
    /\ b.ok
    /\ \E s \in BagToSet(emitted[r]) :
         /\ s.name = "consumergroup_lag_sum"
         /\ s.topic = a.topic
         /\ s.value # 0

(***************************************************************************)
(* The locks (lines 321-332, 349-360, 630-647).                            *)
(***************************************************************************)
\* Run r is at the channel send of line 352.
AtHandoffSend(r) ==
  /\ runPc[r] = "handoff"
  /\ hi <= Len(sgChans)
  /\ hj <= Len(snap)

\* C24: a lock is held only for a map access or a list append: in no
\* state is a task at a blocking channel send while it holds the
\* coordinator lock.
C24_NoSendUnderLock ==
  \A r \in 1..MaxCalls : AtHandoffSend(r) => sgMutex # r

(***************************************************************************)
(* The offset-fetch request of a group (lines 573-593).                    *)
(***************************************************************************)
\* The partitions whose newest offset run r fetched.
FetchedKeys(r) == {<<f[1], f[2]>> : f \in fetched[r]}

\* The partitions assigned to the members of group g: every partition of
\* every topic of the cluster that the group consumes.
AssignedKeys(g) ==
  UNION {{<<t, p>> : p \in PartitionsOf(t)} : t \in ConsumedTopics(g)}

\* C25: the partitions of a group's offset-fetch request are, in fetch-all
\* mode, the keys of the run's offset map and, in members-only mode, the
\* partitions assigned to the group's members, whatever the offset map
\* holds and whatever the topic filters accept.
C25_RequestSet ==
  \A r \in Runs :
    \A e \in {x \in groupLog[r] : x.outcome \in {"ok", "fetchErr"}} :
      e.req = IF offsetShowAll THEN FetchedKeys(r) ELSE AssignedKeys(e.group)

\* In members-only mode a request was sent that holds a partition of a
\* topic the filters reject and a partition absent from the offset map.
C25_Witness ==
  \E r \in Runs :
    \E e \in {x \in groupLog[r] : x.outcome = "ok"} :
      /\ ~offsetShowAll
      /\ \E k \in e.req : ~Accepted(k[1])
      /\ \E k \in e.req : Accepted(k[1]) /\ k \notin FetchedKeys(r)

(***************************************************************************)
(* Termination.                                                            *)
(***************************************************************************)
\* The topic phase of run r is over: every accepted topic was taken and
\* has finished, the queue is closed, the workers have left and collect is
\* past wg.Wait() of line 545.
TopicPhaseOver(r) ==
  /\ mainPc[r] \in {"wait2", "returned"}
  /\ chanClosed[r]
  /\ \A t \in AcceptedTopics : BagIn(t, finished[r])
  /\ \A w \in PoolIds : worker[r][w].st \in {"none", "exit"}

\* C26: for every topic list and every worker count, zero and negative
\* included, a topic phase that has started comes to its end.
C26_TopicPhaseEnds ==
  \A r \in Runs :
    (mainPc[r] \in {"dispatch", "send", "wait"}) ~> TopicPhaseOver(r)

\* With a worker count of at least one, a run of collect that has begun
\* ends its topic phase and returns.
RunEndsWithWorkers ==
  \A r \in Runs :
    (topicWorkers >= 1 /\ mainPc[r] \in {"dispatch", "send", "wait"})
      ~> (TopicPhaseOver(r) /\ mainPc[r] = "returned")

\* C27: with coalescing, every Collect call that waits for its run
\* eventually returns, and the coordinator lock is always released again
\* (so that no later call stays blocked at line 321), when every goroutine
\* is scheduled, collect returns and every caller keeps receiving.
C27_EveryCallReturns ==
  /\ \A c \in Calls :
       (~allowConcurrent /\ callPc[c] = "wait") ~> (callPc[c] = "returned")
  /\ (sgMutex # 0) ~> (sgMutex = 0)

\* With coalescing, every call has returned, after more than one run.
C27_Witness ==
  /\ ~allowConcurrent
  /\ \A c \in Calls : callPc[c] = "returned"
  /\ \E c, d \in Calls : waiter[c] # waiter[d]
  /\ \E c, d \in Calls : c # d /\ waiter[c] = waiter[d]

\* No sample is sent on the channel of a call that has returned.
NoSendAfterReturn ==
  [][\A c \in Calls : callPc[c] = "returned" => out'[c] = out[c]]_vars

\* C28: with coalescing, a call that has returned has received the
\* complete buffer of its run, not only a prefix of it.
C28_ReturnsWithBuffer ==
  \A c \in Calls :
    (~allowConcurrent /\ callPc[c] = "returned") =>
      out[c] = container[waiter[c]]
=============================================================================
